---------------------------- MODULE Spec2Model ----------------------------
(***************************************************************************)
(* A model of the budget tracker in src/script.js: the per-month ledger    *)
(* (three entry logs, wallet and savings in KWD fils), the handlers that   *)
(* create, edit and delete entries, the two savings operations, clearing a *)
(* month, switching month, and the localStorage snapshot of every month.   *)
(*                                                                         *)
(* JavaScript values are modelled with their JavaScript behaviour:         *)
(*   - a number is Num(n) with n an integer, or NaN; a number read back    *)
(*     from JSON may also be Null (JSON.stringify writes NaN as null);     *)
(*   - an amount text is a sequence of one-character strings, so that      *)
(*     amountToFils and filsToAmountString are computed character by       *)
(*     character as the code computes them;                                *)
(*   - a prompt() that is cancelled returns null and one that is emptied   *)
(*     returns "": every use of a prompt result in the code tests only its *)
(*     truthiness, so both are the empty text here.                        *)
(***************************************************************************)
EXTENDS Integers, Sequences, FiniteSets, TLC

\* ------------------------------------------------------------------------
\* Bounds of the model

\* user actions handled in one behaviour
MaxOps == 3

\* largest |fils| drawn for the text round trip of SpecMoney
MaxFils == 1200

\* user actions handled in one behaviour of SpecLong
MaxLongOps == 5

\* ------------------------------------------------------------------------
\* JavaScript numbers

Num(n) == [k |-> "num", v |-> n]

NaN == [k |-> "NaN", v |-> 0]

Null == [k |-> "null", v |-> 0]

IsNum(x) == x.k = "num"

IsNaN(x) == x.k = "NaN"

\* ToNumber of a number or null: null converts to 0
ToNumber(x) == IF x.k = "null" THEN Num(0) ELSE x

\* a + b on numbers (null is converted to 0, NaN is contagious)
JsAdd(a, b) ==
  IF IsNaN(ToNumber(a)) \/ IsNaN(ToNumber(b)) THEN NaN
  ELSE Num(ToNumber(a).v + ToNumber(b).v)

\* a - b
JsSub(a, b) ==
  IF IsNaN(ToNumber(a)) \/ IsNaN(ToNumber(b)) THEN NaN
  ELSE Num(ToNumber(a).v - ToNumber(b).v)

\* a * b
JsMul(a, b) ==
  IF IsNaN(ToNumber(a)) \/ IsNaN(ToNumber(b)) THEN NaN
  ELSE Num(ToNumber(a).v * ToNumber(b).v)

\* a <= b: false when either side is NaN
JsLe(a, b) ==
  /\ ~IsNaN(ToNumber(a))
  /\ ~IsNaN(ToNumber(b))
  /\ ToNumber(a).v <= ToNumber(b).v

\* a > b: false when either side is NaN
JsGt(a, b) ==
  /\ ~IsNaN(ToNumber(a))
  /\ ~IsNaN(ToNumber(b))
  /\ ToNumber(a).v > ToNumber(b).v

\* ------------------------------------------------------------------------
\* Texts: sequences of one-character strings

Digits == <<"0", "1", "2", "3", "4", "5", "6", "7", "8", "9">>

DigitChars == {Digits[i] : i \in 1..10}

DigitVal(c) == (CHOOSE i \in 1..10 : Digits[i] = c) - 1

\* String(n) for a natural number n
RECURSIVE NatToText(_)
NatToText(n) ==
  IF n < 10 THEN <<Digits[n + 1]>>
  ELSE NatToText(n \div 10) \o <<Digits[(n % 10) + 1]>>

\* s.padStart(len, c)
RECURSIVE padStart(_, _, _)
padStart(s, len, c) ==
  IF Len(s) >= len THEN s ELSE padStart(<<c>> \o s, len, c)

\* s.slice(0, n)
slice0(s, n) == SubSeq(s, 1, IF Len(s) < n THEN Len(s) ELSE n)

\* position of the first "." of s, 0 when there is none
IndexOfDot(s) ==
  IF \E i \in 1..Len(s) : s[i] = "."
  THEN CHOOSE i \in 1..Len(s) : s[i] = "." /\ \A j \in 1..(i - 1) : s[j] # "."
  ELSE 0

\* s.split(".")[0]
SplitFirst(s) ==
  IF IndexOfDot(s) = 0 THEN s ELSE SubSeq(s, 1, IndexOfDot(s) - 1)

\* s.split(".")[1], and "" when split returns one part only (the default of
\* the destructuring); later parts are ignored
SplitSecond(s) ==
  IF IndexOfDot(s) = 0 THEN <<>>
  ELSE SplitFirst(SubSeq(s, IndexOfDot(s) + 1, Len(s)))

\* value of a non-empty text of digits
RECURSIVE DigitsToNat(_)
DigitsToNat(s) ==
  IF Len(s) = 0 THEN 0
  ELSE 10 * DigitsToNat(SubSeq(s, 1, Len(s) - 1)) + DigitVal(s[Len(s)])

AllDigits(s) == Len(s) > 0 /\ \A i \in 1..Len(s) : s[i] \in DigitChars

\* Number(s), for the texts of the model (digits, "-", and letters; no ".",
\* which split has removed): "" is 0, an optionally signed run of digits is
\* its value, anything else is NaN
JsNumber(s) ==
  IF Len(s) = 0 THEN Num(0)
  ELSE IF AllDigits(s) THEN Num(DigitsToNat(s))
  ELSE IF s[1] = "-" /\ AllDigits(Tail(s)) THEN Num(0 - DigitsToNat(Tail(s)))
  ELSE NaN

\* amountToFils(amount): decimal text to integer fils
amountToFils(str) ==
  JsAdd(JsMul(JsNumber(SplitFirst(str)), Num(1000)),
        JsNumber(slice0(SplitSecond(str) \o <<"0", "0", "0">>, 3)))

\* filsToAmountString(filsInt): Math.abs, Math.floor and % of NaN are NaN,
\* and those of null are those of 0
filsToAmountString(filsInt) ==
  IF IsNaN(ToNumber(filsInt)) THEN <<"N", "a", "N", ".", "N", "a", "N">>
  ELSE LET n == ToNumber(filsInt).v
           v == IF n < 0 THEN 0 - n ELSE n
       IN  (IF n < 0 THEN <<"-">> ELSE <<>>)
           \o NatToText(v \div 1000) \o <<".">>
           \o padStart(NatToText(v % 1000), 3, "0")

\* ------------------------------------------------------------------------
\* Inputs of the handlers

\* getCurrentMonthKey(): the month of the clock, fixed during a behaviour
ThisMonth == "2026-11"

\* the months the month picker can select
Months == {"2026-11", "2026-12"}

\* amount texts given to the forms and prompts: the handlers take the text of
\* the field or prompt as it is.  The empty text is an empty field or a
\* cancelled prompt; "-1.5" is a negative decimal and "a" is no decimal.
AmountTexts ==
  { <<>>,
    <<"1">>,
    <<"0", ".", "5">>,
    <<"-", "1", ".", "5">>,
    <<"a">> }

\* amount texts given to the two savings prompts
SavingsTexts == AmountTexts \cup { <<"0">> }

Currencies == {"KWD", "USD"}

\* the options of the payment method select
Methods == {"wallet", "bank"}

\* what can be typed into the method prompt of an edit
TypedMethods == {"wallet", "bank", "cash"}

LendTypes == {"lend", "borrow"}

Statuses == {"pending", "returned"}

\* the status a new lending entry is submitted with
NewStatuses == {"pending"}

Dates == {"2026-11-02"}

\* source, category and counterparty name
Names == {"s"}

\* notes and reason
Notes == {"n"}

EntryTypes == {"income", "expense", "lending"}

\* data-type values a click can carry: the three logs and an unknown one
ClickTypes == EntryTypes \cup {"other"}

\* the value of a property that is not set (a lending entry has no notes)
Undefined == "undefined"

\* ------------------------------------------------------------------------
\* State

VARIABLES
  monthData,        \* the in-memory ledger of the active month
  currentMonthKey,  \* the active month
  storage,          \* localStorage: month -> <<>> or <<snapshot>>
  nOps,             \* user actions handled so far
  lastOp,           \* history: the last user action and its inputs
  pre,              \* history: monthData before the last user action
  preStorage,       \* history: storage before the last user action
  transferred,      \* history: month -> sum of wallet-to-savings transfers
  credited,         \* history: month -> sum of direct savings credits
  budget,           \* the number of user actions a behaviour may handle
  logging,          \* whether history and trail are kept
  history,          \* history: the user actions handled, in order
  trail,            \* history: the active month and ledger before each
  pc,               \* text round trip: "start", "formatted", "parsed"
  fils,             \* text round trip: the amount formatted
  amountStr,        \* text round trip: its text
  parsed            \* text round trip: the text parsed again

vars ==
  <<monthData, currentMonthKey, storage, nOps, lastOp, pre, preStorage,
    transferred, credited, budget, logging, history, trail,
    pc, fils, amountStr, parsed>>

ledgerVars ==
  <<monthData, currentMonthKey, storage, nOps, lastOp, pre, preStorage,
    transferred, credited, budget, logging, history, trail>>

moneyVars == <<pc, fils, amountStr, parsed>>

\* the ledger loadMonthData returns when nothing is stored
EmptyLedger ==
  [income |-> <<>>, expenses |-> <<>>, lending |-> <<>>,
   wallet |-> Num(0), savings |-> Num(0)]

\* JSON.stringify of a number: NaN is written as null
JSONNumber(x) == IF IsNum(x) THEN x ELSE Null

JSONEntries(log) ==
  [i \in 1..Len(log) |-> [log[i] EXCEPT !.amountFils = JSONNumber(@)]]

\* JSON.stringify(data): the snapshot text, kept as the value it denotes.  A
\* property whose value is undefined is left out, and reads as undefined
\* again after parsing.
JSONStringify(data) ==
  [income |-> JSONEntries(data.income),
   expenses |-> JSONEntries(data.expenses),
   lending |-> JSONEntries(data.lending),
   wallet |-> JSONNumber(data.wallet),
   savings |-> JSONNumber(data.savings)]

\* JSON.parse(raw)
JSONParse(raw) == raw

\* loadMonthData(monthKey) on the storage st
loadMonthData(st, monthKey) ==
  IF st[monthKey] = <<>> THEN EmptyLedger ELSE JSONParse(st[monthKey][1])

\* saveMonthData(monthKey, data) on the storage st
saveMonthData(st, monthKey, data) ==
  [st EXCEPT ![monthKey] = <<JSONStringify(data)>>]

removeItemKeepsSnapshot(st, monthKey) == st

\* localStorage.removeItem("budget-" + monthKey)
removeItem(st, monthKey) == [st EXCEPT ![monthKey] = <<>>]

\* a user action: the handler, the data-type and data-index of the click (or
\* the month picked), the amount text given, the answer to confirm(), and
\* for an edit whether every prompt but the amount prompt kept its value
Op(op, type, index, text, confirmed) ==
  [op |-> op, type |-> type, index |-> index, text |-> text,
   confirmed |-> confirmed, kept |-> FALSE]

NoOp == Op("none", "", 0, <<>>, FALSE)

\* lines 75-76 on an empty localStorage, with the history variables empty
Loaded ==
  /\ currentMonthKey = ThisMonth
  /\ storage = [m \in Months |-> <<>>]
  /\ monthData = loadMonthData(storage, currentMonthKey)
  /\ nOps = 0
  /\ lastOp = NoOp
  /\ pre = EmptyLedger
  /\ preStorage = storage
  /\ transferred = [m \in Months |-> Num(0)]
  /\ credited = [m \in Months |-> Num(0)]
  /\ history = <<>>
  /\ trail = <<>>

Init ==
  /\ Loaded
  /\ budget = MaxOps
  /\ logging = FALSE
  /\ pc = "idle"
  /\ fils = Num(0)
  /\ amountStr = <<>>
  /\ parsed = Num(0)

\* the history variables of one user action
Record(op) ==
  /\ nOps < budget
  /\ nOps' = nOps + 1
  /\ lastOp' = op
  /\ pre' = monthData
  /\ preStorage' = storage
  /\ history' = (IF logging THEN Append(history, op) ELSE history)
  /\ trail' = (IF logging
               THEN Append(trail, [month |-> currentMonthKey, md |-> monthData])
               ELSE trail)
  /\ UNCHANGED <<budget, logging>>
  /\ UNCHANGED moneyVars

\* ------------------------------------------------------------------------
\* Balance effects, one definition per place of the code

\* incomeEffect with the currency test left out
incomeEffectAnyCurrency(md, entry) ==
  [md EXCEPT !.wallet = JsAdd(@, entry.amountFils)]

\* income submit, lines 320-323: a KWD income is added to the wallet
incomeEffect(md, entry) ==
  IF entry.currency = "KWD"
  THEN [md EXCEPT !.wallet = JsAdd(@, entry.amountFils)]
  ELSE md

\* expense submit, lines 356-363: a KWD expense is deducted from the wallet
\* or from savings, by its method
expenseEffect(md, entry) ==
  IF entry.currency = "KWD"
  THEN IF entry.method = "wallet"
       THEN [md EXCEPT !.wallet = JsSub(@, entry.amountFils)]
       ELSE IF entry.method = "bank"
       THEN [md EXCEPT !.savings = JsSub(@, entry.amountFils)]
       ELSE md
  ELSE md

\* editRevert with every entry that is not an expense reverted as an income
editRevertLendingAsIncome(md, type, entry) ==
  IF type # "expense" /\ entry.currency = "KWD"
  THEN [md EXCEPT !.wallet = JsSub(@, entry.amountFils)]
  ELSE IF type = "expense" /\ entry.currency = "KWD"
  THEN IF entry.method = "wallet"
       THEN [md EXCEPT !.wallet = JsAdd(@, entry.amountFils)]
       ELSE IF entry.method = "bank"
       THEN [md EXCEPT !.savings = JsAdd(@, entry.amountFils)]
       ELSE md
  ELSE md

\* handleEdit, lines 450-456: the old impact of the entry is reverted
editRevert(md, type, entry) ==
  IF type = "income" /\ entry.currency = "KWD"
  THEN [md EXCEPT !.wallet = JsSub(@, entry.amountFils)]
  ELSE IF type = "expense" /\ entry.currency = "KWD"
  THEN IF entry.method = "wallet"
       THEN [md EXCEPT !.wallet = JsAdd(@, entry.amountFils)]
       ELSE IF entry.method = "bank"
       THEN [md EXCEPT !.savings = JsAdd(@, entry.amountFils)]
       ELSE md
  ELSE md

\* handleEdit, lines 484-490: the new impact of the entry is applied
editApply(md, type, entry) ==
  IF type = "income" /\ entry.currency = "KWD"
  THEN [md EXCEPT !.wallet = JsAdd(@, entry.amountFils)]
  ELSE IF type = "expense" /\ entry.currency = "KWD"
  THEN IF entry.method = "wallet"
       THEN [md EXCEPT !.wallet = JsSub(@, entry.amountFils)]
       ELSE IF entry.method = "bank"
       THEN [md EXCEPT !.savings = JsSub(@, entry.amountFils)]
       ELSE md
  ELSE md

\* deleteRevert with the balances left as they are
deleteRevertNothing(md, type, entry) == md

\* handleDelete, lines 506-512: the impact of the entry is reverted
deleteRevert(md, type, entry) ==
  IF type = "income" /\ entry.currency = "KWD"
  THEN [md EXCEPT !.wallet = JsSub(@, entry.amountFils)]
  ELSE IF type = "expense" /\ entry.currency = "KWD"
  THEN IF entry.method = "wallet"
       THEN [md EXCEPT !.wallet = JsAdd(@, entry.amountFils)]
       ELSE IF entry.method = "bank"
       THEN [md EXCEPT !.savings = JsAdd(@, entry.amountFils)]
       ELSE md
  ELSE md

\* transferRejected with the comparison to the wallet left out
transferRejectedNoBalanceCheck(amountFils, md) == JsLe(amountFils, Num(0))

\* line 546: the test that rejects a wallet-to-savings transfer
transferRejected(amountFils, md) ==
  JsLe(amountFils, Num(0)) \/ JsGt(amountFils, md.wallet)

\* lines 551-552
transferEffect(md, amountFils) ==
  [md EXCEPT !.wallet = JsSub(@, amountFils),
             !.savings = JsAdd(@, amountFils)]

\* line 564: the test that rejects a direct savings credit
creditRejected(amountFils) == JsLe(amountFils, Num(0))

\* line 570
creditEffect(md, amountFils) ==
  [md EXCEPT !.savings = JsAdd(@, amountFils)]

\* ------------------------------------------------------------------------
\* Handlers

\* a handler that returns before it changes anything
Returns ==
  UNCHANGED <<monthData, currentMonthKey, storage, transferred, credited>>

\* a handler that ends with saveMonthData(currentMonthKey, monthData)
Commits(md) ==
  /\ monthData' = md
  /\ storage' = saveMonthData(storage, currentMonthKey, md)
  /\ UNCHANGED currentMonthKey

\* incomeForm submit, lines 297-328
IncomeSubmit(date, source, amount, currency, notes) ==
  /\ Record(Op("income", "income", 0, amount, TRUE))
  /\ IF date = "" \/ source = "" \/ amount = <<>>
     THEN Returns
     ELSE LET entry == [date |-> date, source |-> source,
                        amountFils |-> amountToFils(amount),
                        currency |-> currency, notes |-> notes]
              pushed == [monthData EXCEPT !.income = Append(@, entry)]
          IN  /\ Commits(incomeEffect(pushed, entry))
              /\ UNCHANGED <<transferred, credited>>

\* expenseForm submit, lines 331-368
ExpenseSubmit(date, category, amount, currency, method, notes) ==
  /\ Record(Op("expense", "expense", 0, amount, TRUE))
  /\ IF date = "" \/ category = "" \/ amount = <<>>
     THEN Returns
     ELSE LET entry == [date |-> date, category |-> category,
                        amountFils |-> amountToFils(amount),
                        currency |-> currency, method |-> method,
                        notes |-> notes]
              pushed == [monthData EXCEPT !.expenses = Append(@, entry)]
          IN  /\ Commits(expenseEffect(pushed, entry))
              /\ UNCHANGED <<transferred, credited>>

\* lbForm submit, lines 371-401
LendingSubmit(date, name, amount, currency, reason, type, status) ==
  /\ Record(Op("lending", "lending", 0, amount, TRUE))
  /\ IF date = "" \/ name = "" \/ amount = <<>>
     THEN Returns
     ELSE LET entry == [date |-> date, name |-> name,
                        amountFils |-> amountToFils(amount),
                        currency |-> currency, reason |-> reason,
                        type |-> type, status |-> status]
          IN  /\ Commits([monthData EXCEPT !.lending = Append(@, entry)])
              /\ UNCHANGED <<transferred, credited>>

\* walletToSavingsBtn click, lines 539-555
WalletToSavings(amount) ==
  /\ Record(Op("walletToSavings", "", 0, amount, TRUE))
  /\ IF amount = <<>> \/ transferRejected(amountToFils(amount), monthData)
     THEN Returns
     ELSE /\ Commits(transferEffect(monthData, amountToFils(amount)))
          /\ transferred' =
               [transferred EXCEPT
                  ![currentMonthKey] = JsAdd(@, amountToFils(amount))]
          /\ UNCHANGED credited

\* incomeToSavingsBtn click, lines 557-573
IncomeToSavings(amount) ==
  /\ Record(Op("incomeToSavings", "", 0, amount, TRUE))
  /\ IF amount = <<>> \/ creditRejected(amountToFils(amount))
     THEN Returns
     ELSE /\ Commits(creditEffect(monthData, amountToFils(amount)))
          /\ credited' =
               [credited EXCEPT
                  ![currentMonthKey] = JsAdd(@, amountToFils(amount))]
          /\ UNCHANGED transferred

\* clearMonthBtn click, lines 576-581
ClearMonth(confirmed) ==
  /\ Record(Op("clear", "", 0, <<>>, confirmed))
  /\ IF ~confirmed
     THEN Returns
     ELSE /\ storage' = removeItem(storage, currentMonthKey)
          /\ monthData' = loadMonthData(storage', currentMonthKey)
          /\ transferred' = [transferred EXCEPT ![currentMonthKey] = Num(0)]
          /\ credited' = [credited EXCEPT ![currentMonthKey] = Num(0)]
          /\ UNCHANGED currentMonthKey

\* monthPicker change, lines 112-117: an emptied picker selects this month
MonthChange(value) ==
  /\ Record(Op("month", value, 0, <<>>, TRUE))
  /\ currentMonthKey' = (IF value = "" THEN ThisMonth ELSE value)
  /\ monthData' = loadMonthData(storage, currentMonthKey')
  /\ UNCHANGED <<storage, transferred, credited>>

\* the page is loaded again, lines 75-76
Restart ==
  /\ Record(Op("restart", "", 0, <<>>, TRUE))
  /\ currentMonthKey' = ThisMonth
  /\ monthData' = loadMonthData(storage, currentMonthKey')
  /\ UNCHANGED <<storage, transferred, credited>>

\* the log a click's data-type names
Log(md, type) ==
  IF type = "income" THEN md.income
  ELSE IF type = "expense" THEN md.expenses
  ELSE IF type = "lending" THEN md.lending
  ELSE <<>>

\* lines 406-411 and 499-504: the entry at a 0-based index, if there is one
Found(md, type, index) ==
  type \in EntryTypes /\ index >= 0 /\ index < Len(Log(md, type))

\* p || fallback, for a prompt result p
OrElse(p, fallback) == IF p # "" THEN p ELSE fallback

\* the answers to the prompts of one handleEdit, lines 414-447
Answer(date, main, amount, currency, notes, method, type, status) ==
  [date |-> date, main |-> main, amount |-> amount, currency |-> currency,
   notes |-> notes, method |-> method, type |-> type, status |-> status]

\* lines 458-482: the entry after its fields are overwritten with the
\* answers p.  The notes prompt falls back to entry.notes, which a lending
\* entry does not have.
editedEntry(type, entry, p) ==
  LET newAmountFils ==
        IF p.amount # <<>> THEN amountToFils(p.amount) ELSE entry.amountFils
  IN  IF type = "income"
      THEN [date |-> OrElse(p.date, entry.date),
            source |-> OrElse(p.main, entry.source),
            amountFils |-> newAmountFils,
            currency |-> OrElse(p.currency, entry.currency),
            notes |-> OrElse(p.notes, entry.notes)]
      ELSE IF type = "expense"
      THEN [date |-> OrElse(p.date, entry.date),
            category |-> OrElse(p.main, entry.category),
            amountFils |-> newAmountFils,
            currency |-> OrElse(p.currency, entry.currency),
            method |-> OrElse(p.method, entry.method),
            notes |-> OrElse(p.notes, entry.notes)]
      ELSE [date |-> OrElse(p.date, entry.date),
            name |-> OrElse(p.main, entry.name),
            amountFils |-> newAmountFils,
            currency |-> OrElse(p.currency, entry.currency),
            reason |-> OrElse(p.notes, Undefined),
            type |-> OrElse(p.type, entry.type),
            status |-> OrElse(p.status, entry.status)]

\* the ledger with the entry at a 0-based index replaced
withEntry(md, type, index, entry) ==
  IF type = "income" THEN [md EXCEPT !.income[index + 1] = entry]
  ELSE IF type = "expense" THEN [md EXCEPT !.expenses[index + 1] = entry]
  ELSE [md EXCEPT !.lending[index + 1] = entry]

\* splice that removes every entry equal to the one at the index
spliceByValue(log, index) == SelectSeq(log, LAMBDA e : e # log[index + 1])

\* log.splice(index, 1)
splice(log, index) ==
  SubSeq(log, 1, index) \o SubSeq(log, index + 2, Len(log))

\* lines 514-516
withoutEntry(md, type, index) ==
  IF type = "income" THEN [md EXCEPT !.income = splice(@, index)]
  ELSE IF type = "expense" THEN [md EXCEPT !.expenses = splice(@, index)]
  ELSE [md EXCEPT !.lending = splice(@, index)]

\* lines 414-447: every prompt of an edit but the amount prompt was
\* cancelled, emptied or left at the default it shows
AllKept(p) ==
  /\ p.date = ""
  /\ p.main = ""
  /\ p.currency = ""
  /\ p.notes = ""
  /\ p.method = ""
  /\ p.type = ""
  /\ p.status = ""

\* the user action of an edit of an entry, with the amount text given and
\* whether every other prompt kept its value
EditOp(type, index, p) ==
  [Op("edit", type, index, p.amount, TRUE) EXCEPT !.kept = AllKept(p)]

\* handleEdit with the ledger saved before the new impact is applied
handleEditSavesBeforeApply(type, index, p) ==
  /\ IF ~Found(monthData, type, index)
     THEN /\ Record(Op("edit", type, index, <<>>, TRUE))
          /\ Returns
     ELSE LET entry == Log(monthData, type)[index + 1]
              reverted == editRevert(monthData, type, entry)
              new == editedEntry(type, entry, p)
              written == withEntry(reverted, type, index, new)
          IN  /\ Record(EditOp(type, index, p))
              /\ storage' = saveMonthData(storage, currentMonthKey, written)
              /\ monthData' = editApply(written, type, new)
              /\ UNCHANGED <<currentMonthKey, transferred, credited>>

\* handleEdit(type, index), lines 405-494, with the answers p to its prompts
\* (none is asked when there is no entry)
handleEdit(type, index, p) ==
  /\ IF ~Found(monthData, type, index)
     THEN /\ Record(Op("edit", type, index, <<>>, TRUE))
          /\ Returns
     ELSE LET entry == Log(monthData, type)[index + 1]
              reverted == editRevert(monthData, type, entry)
              new == editedEntry(type, entry, p)
              written == withEntry(reverted, type, index, new)
          IN  /\ Record(EditOp(type, index, p))
              /\ Commits(editApply(written, type, new))
              /\ UNCHANGED <<transferred, credited>>

handleDeleteSavesWithoutEntry(type, index, confirmed) ==
  /\ Record(Op("delete", type, index, <<>>, confirmed))
  /\ IF ~confirmed
     THEN Returns
     ELSE IF ~Found(monthData, type, index)
     THEN /\ Commits(monthData)
          /\ UNCHANGED <<transferred, credited>>
     ELSE LET entry == Log(monthData, type)[index + 1]
              reverted == deleteRevert(monthData, type, entry)
          IN  /\ Commits(withoutEntry(reverted, type, index))
              /\ UNCHANGED <<transferred, credited>>

\* handleDelete(type, index), lines 496-520, with the answer to confirm()
handleDelete(type, index, confirmed) ==
  /\ Record(Op("delete", type, index, <<>>, confirmed))
  /\ IF ~confirmed \/ ~Found(monthData, type, index)
     THEN Returns
     ELSE LET entry == Log(monthData, type)[index + 1]
              reverted == deleteRevert(monthData, type, entry)
          IN  /\ Commits(withoutEntry(reverted, type, index))
              /\ UNCHANGED <<transferred, credited>>

\* ------------------------------------------------------------------------
\* Summaries.  A totals object is a function from its keys, the currencies,
\* to numbers.

\* !x for a number or an absent property
Falsy(obj, currency) ==
  \/ currency \notin DOMAIN obj
  \/ IsNaN(ToNumber(obj[currency]))
  \/ ToNumber(obj[currency]) = Num(0)

\* lines 126-128 and 258-260
ensureCurrency(obj, currency) ==
  IF Falsy(obj, currency) THEN (currency :> Num(0)) @@ obj ELSE obj

\* lines 130-133 and 135-138: the totals object after the first n entries
RECURSIVE totalsAfter(_, _)
totalsAfter(log, n) ==
  IF n = 0 THEN [c \in {} |-> Num(0)]
  ELSE LET entry == log[n]
           obj == ensureCurrency(totalsAfter(log, n - 1), entry.currency)
       IN  [obj EXCEPT ![entry.currency] = JsAdd(@, entry.amountFils)]

\* calculateTotals(), lines 122-142
calculateTotals(md) ==
  [incomeTotals |-> totalsAfter(md.income, Len(md.income)),
   expenseTotals |-> totalsAfter(md.expenses, Len(md.expenses))]

\* lines 262-272, for one of the types "lend" and "borrow": the object after
\* the first n entries
RECURSIVE pendingAfter(_, _, _)
pendingAfter(log, n, type) ==
  IF n = 0 THEN [c \in {} |-> Num(0)]
  ELSE LET entry == log[n]
           sofar == pendingAfter(log, n - 1, type)
       IN  IF entry.status = "pending" /\ entry.type = type
           THEN LET obj == ensureCurrency(sofar, entry.currency)
                IN  [obj EXCEPT ![entry.currency] = JsAdd(@, entry.amountFils)]
           ELSE sofar

\* renderLBSummary(), lines 254-272: the two objects it displays
renderLBSummary(md) ==
  [toReceive |-> pendingAfter(md.lending, Len(md.lending), "lend"),
   toPayBack |-> pendingAfter(md.lending, Len(md.lending), "borrow")]

\* ------------------------------------------------------------------------
\* Specification of the ledger

\* the indexes a click can carry: those of the rows, and one past the last
ClickIndexes(type) == 0..Len(Log(monthData, type))

Keep(S) == S \cup {""}

\* what the amount prompt of an edit can return: nothing, a typed text, or
\* the default it shows
EditTexts(entry) == AmountTexts \cup {filsToAmountString(entry.amountFils)}

\* what another prompt of an edit can return: nothing (cancelled, emptied, or
\* the default accepted, all of which keep the value) or a different value
Answers(S, current) == {""} \cup (S \ {current})

EditFound(type, index) ==
  LET entry == Log(monthData, type)[index + 1]
  IN  \E pDate \in Answers(Dates, entry.date),
         pMain \in Answers(Names, IF type = "income" THEN entry.source
                                  ELSE IF type = "expense" THEN entry.category
                                  ELSE entry.name),
         pAmount \in EditTexts(entry),
         pCurrency \in Answers(Currencies, entry.currency),
         pNotes \in (IF type = "lending" THEN Keep(Notes)
                     ELSE Answers(Notes, entry.notes)),
         pMethod \in (IF type = "expense"
                      THEN Answers(TypedMethods, entry.method) ELSE {""}),
         pType \in (IF type = "lending"
                    THEN Answers(LendTypes, entry.type) ELSE {""}),
         pStatus \in (IF type = "lending"
                      THEN Answers(Statuses, entry.status) ELSE {""}) :
        handleEdit(type, index,
                   Answer(pDate, pMain, pAmount, pCurrency, pNotes, pMethod,
                          pType, pStatus))

Next ==
  \/ \E d \in Dates, n \in Names, a \in AmountTexts, c \in Currencies,
        t \in Notes :
       IncomeSubmit(d, n, a, c, t)
  \/ \E d \in Dates, n \in Names, a \in AmountTexts, c \in Currencies,
        m \in Methods, t \in Notes :
       ExpenseSubmit(d, n, a, c, m, t)
  \/ \E d \in Dates, n \in Names, a \in AmountTexts, c \in Currencies,
        t \in Notes, y \in LendTypes, s \in NewStatuses :
       LendingSubmit(d, n, a, c, t, y, s)
  \/ \E type \in ClickTypes :
       \E index \in ClickIndexes(type) :
         IF Found(monthData, type, index)
         THEN EditFound(type, index)
         ELSE handleEdit(type, index,
                         Answer("", "", <<>>, "", "", "", "", ""))
  \/ \E type \in ClickTypes :
       \E index \in ClickIndexes(type), confirmed \in BOOLEAN :
         handleDelete(type, index, confirmed)
  \/ \E a \in SavingsTexts : WalletToSavings(a)
  \/ \E a \in SavingsTexts : IncomeToSavings(a)
  \/ \E confirmed \in BOOLEAN : ClearMonth(confirmed)
  \/ \E value \in Keep(Months) : MonthChange(value)
  \/ Restart

Spec == Init /\ [][Next]_vars

\* ------------------------------------------------------------------------
\* Specification of the text round trip: an amount in fils is formatted by
\* filsToAmountString and the text is parsed by amountToFils, as the amount
\* prompt of handleEdit does when its default is accepted

InitMoney ==
  /\ Loaded
  /\ budget = 0
  /\ logging = FALSE
  /\ pc = "start"
  /\ fils \in {Num(n) : n \in (0 - MaxFils)..MaxFils}
  /\ amountStr = <<>>
  /\ parsed = Num(0)

Format ==
  /\ pc = "start"
  /\ amountStr' = filsToAmountString(fils)
  /\ pc' = "formatted"
  /\ UNCHANGED <<fils, parsed>>
  /\ UNCHANGED ledgerVars

Parse ==
  /\ pc = "formatted"
  /\ parsed' = amountToFils(amountStr)
  /\ pc' = "parsed"
  /\ UNCHANGED <<fils, amountStr>>
  /\ UNCHANGED ledgerVars

NextMoney == Format \/ Parse

SpecMoney == InitMoney /\ [][NextMoney]_vars

\* ------------------------------------------------------------------------
\* Vocabulary of the claims

\* sum of amountFils over a log, as JavaScript adds
RECURSIVE SumFils(_)
SumFils(log) ==
  IF Len(log) = 0 THEN Num(0)
  ELSE JsAdd(SumFils(SubSeq(log, 1, Len(log) - 1)), log[Len(log)].amountFils)

IsKwd(e) == e.currency = "KWD"

IsKwdWallet(e) == e.currency = "KWD" /\ e.method = "wallet"

IsKwdBank(e) == e.currency = "KWD" /\ e.method = "bank"

\* x is the integer that the JavaScript number y is
SameInteger(x, y) == IsNum(x) /\ IsNum(y) /\ x.v = y.v

\* new is old with one entry appended
Appended(new, old) ==
  Len(new) = Len(old) + 1 /\ SubSeq(new, 1, Len(old)) = old

BalancesUnchanged ==
  monthData.wallet = pre.wallet /\ monthData.savings = pre.savings

LogsUnchanged ==
  /\ monthData.income = pre.income
  /\ monthData.expenses = pre.expenses
  /\ monthData.lending = pre.lending

\* the last user action edited or deleted an entry that was in its log
OnEntry(op) ==
  /\ lastOp.op = op
  /\ lastOp.confirmed
  /\ Found(pre, lastOp.type, lastOp.index)

\* that entry before the action, and after an edit
PreEntry == Log(pre, lastOp.type)[lastOp.index + 1]

PostEntry == Log(monthData, lastOp.type)[lastOp.index + 1]

\* the amount of the last user action, for an action given an amount text
LastAmount == amountToFils(lastOp.text)

\* a decimal: an optional "-", digits, and optionally "." and more digits
IsDecimal(str) ==
  LET int == SplitFirst(str)
      rest == SubSeq(str, IndexOfDot(str) + 1, Len(str))
  IN  /\ \/ AllDigits(int)
         \/ Len(int) > 1 /\ int[1] = "-" /\ AllDigits(Tail(int))
      /\ IndexOfDot(str) # 0 => \A i \in 1..Len(rest) : rest[i] \in DigitChars

\* ------------------------------------------------------------------------
\* Specification of longer sessions: up to MaxLongOps user actions on KWD
\* income and expense entries, with the amounts of the worked example of the
\* specification and one text that is not a number, and with every action
\* and the ledger before it kept in history and trail

InitLong ==
  /\ Loaded
  /\ budget = MaxLongOps
  /\ logging = TRUE
  /\ pc = "idle"
  /\ fils = Num(0)
  /\ amountStr = <<>>
  /\ parsed = Num(0)

Text100 == <<"1", "0", "0", ".", "0", "0", "0">>

Text25 == <<"2", "5", ".", "5", "0", "0">>

Text50 == <<"5", "0", ".", "0", "0", "0">>

Text10 == <<"1", "0", ".", "0", "0", "0">>

LongTypes == {"income", "expense"}

\* an edit that answers the amount prompt only
AmountOnly(text) == Answer("", "", text, "", "", "", "", "")

NextLong ==
  \/ \E d \in Dates, n \in Names, a \in {Text100, <<"a">>}, t \in Notes :
       IncomeSubmit(d, n, a, "KWD", t)
  \/ \E d \in Dates, n \in Names, m \in Methods, t \in Notes :
       ExpenseSubmit(d, n, Text25, "KWD", m, t)
  \/ \E type \in LongTypes :
       \E index \in 0..(Len(Log(monthData, type)) - 1),
          a \in {Text10, Text25, Text100, <<"a">>} :
         handleEdit(type, index, AmountOnly(a))
  \/ \E type \in LongTypes :
       \E index \in 0..(Len(Log(monthData, type)) - 1) :
         handleDelete(type, index, TRUE)
  \/ WalletToSavings(Text50)
  \/ \E value \in Months : MonthChange(value)

SpecLong == InitLong /\ [][NextLong]_vars

\* x and y are the same number, null counting as the 0 it is in arithmetic
\* and in filsToAmountString
SameValue(x, y) == ToNumber(x) = ToNumber(y)

\* the number of user actions handled so far in a behaviour of SpecLong
Steps == Len(history)

\* the ledger in memory after the i-th user action of a behaviour of SpecLong
LedgerAfter(i) == IF i = Steps THEN monthData ELSE trail[i + 1].md

\* the entries of a log in one currency
InCurrency(log, c) == SelectSeq(log, LAMBDA e : e.currency = c)

\* the totals object has exactly the currencies of the log as keys, each with
\* the sum of the amounts of the entries in that currency
TotalsOf(totals, log) ==
  /\ DOMAIN totals = {log[i].currency : i \in 1..Len(log)}
  /\ \A c \in DOMAIN totals : totals[c] = SumFils(InCurrency(log, c))

\* the pending lending entries of one type
Pending(log, type) ==
  SelectSeq(log, LAMBDA e : e.status = "pending" /\ e.type = type)

\* the balances with the impact of an entry on them applied or, if undo,
\* taken back: a KWD income counts for the wallet, a KWD expense against the
\* wallet or the savings by its method, and nothing else counts
Impacted(md, type, e, undo) ==
  IF type = "income" /\ e.currency = "KWD"
  THEN [md EXCEPT !.wallet = IF undo THEN JsSub(@, e.amountFils)
                                     ELSE JsAdd(@, e.amountFils)]
  ELSE IF type = "expense" /\ e.currency = "KWD" /\ e.method = "wallet"
  THEN [md EXCEPT !.wallet = IF undo THEN JsAdd(@, e.amountFils)
                                     ELSE JsSub(@, e.amountFils)]
  ELSE IF type = "expense" /\ e.currency = "KWD" /\ e.method = "bank"
  THEN [md EXCEPT !.savings = IF undo THEN JsAdd(@, e.amountFils)
                                      ELSE JsSub(@, e.amountFils)]
  ELSE md

\* the logs other than the one of a type are as before the last user action
OtherLogsUnchanged(type) ==
  \A t \in EntryTypes \ {type} : Log(monthData, t) = Log(pre, t)

\* ------------------------------------------------------------------------
\* Claims

\* C1: in every state the wallet of the active month equals the sum of its
\* KWD income entries, minus the sum of its KWD expense entries paid from the
\* wallet, minus the wallet-to-savings transfers made since the month was
\* created or last cleared.
C1_WalletClosedForm ==
  SameInteger(monthData.wallet,
              JsSub(JsSub(SumFils(SelectSeq(monthData.income, IsKwd)),
                          SumFils(SelectSeq(monthData.expenses, IsKwdWallet))),
                    transferred[currentMonthKey]))

\* C2: in every state the savings of the active month equal the transfers
\* plus the direct credits made since the month was created or last cleared,
\* minus the sum of its KWD expense entries paid from the bank.
C2_SavingsClosedForm ==
  SameInteger(monthData.savings,
              JsSub(JsAdd(transferred[currentMonthKey],
                          credited[currentMonthKey]),
                    SumFils(SelectSeq(monthData.expenses, IsKwdBank))))

\* C3: creating or deleting an income or expense entry whose currency is not
\* KWD, and editing one whose currency is not KWD before and after the edit,
\* leaves wallet and savings as they were.
C3_ForeignCurrencyNoEffect ==
  /\ ( /\ lastOp.op = "income"
       /\ Appended(monthData.income, pre.income)
       /\ monthData.income[Len(monthData.income)].currency # "KWD" )
       => BalancesUnchanged
  /\ ( /\ lastOp.op = "expense"
       /\ Appended(monthData.expenses, pre.expenses)
       /\ monthData.expenses[Len(monthData.expenses)].currency # "KWD" )
       => BalancesUnchanged
  /\ ( /\ OnEntry("delete")
       /\ lastOp.type \in {"income", "expense"}
       /\ PreEntry.currency # "KWD" )
       => BalancesUnchanged
  /\ ( /\ OnEntry("edit")
       /\ lastOp.type \in {"income", "expense"}
       /\ PreEntry.currency # "KWD"
       /\ PostEntry.currency # "KWD" )
       => BalancesUnchanged

\* C3 happens: a USD expense was edited to another amount, still in USD
C3_Witness ==
  /\ OnEntry("edit")
  /\ lastOp.type = "expense"
  /\ PreEntry.currency = "USD"
  /\ PostEntry.currency = "USD"
  /\ IsNum(PreEntry.amountFils)
  /\ IsNum(PostEntry.amountFils)
  /\ PostEntry.amountFils # PreEntry.amountFils

\* C4: creating, editing or deleting a lending entry leaves wallet and
\* savings as they were.
C4_LendingNoEffect ==
  (lastOp.op \in {"lending", "edit", "delete"} /\ lastOp.type = "lending")
    => BalancesUnchanged

\* C4 happens: a KWD lending entry was edited to another amount and status
C4_Witness ==
  /\ OnEntry("edit")
  /\ lastOp.type = "lending"
  /\ PreEntry.currency = "KWD"
  /\ PostEntry.currency = "KWD"
  /\ IsNum(PreEntry.amountFils)
  /\ IsNum(PostEntry.amountFils)
  /\ PostEntry.amountFils # PreEntry.amountFils
  /\ PostEntry.status # PreEntry.status

\* C5: a wallet-to-savings transfer of an amount <= 0 or greater than the
\* wallet changes neither the ledger in memory nor the storage.
C5_TransferRejected ==
  ( /\ lastOp.op = "walletToSavings"
    /\ lastOp.text # <<>>
    /\ IsNum(LastAmount)
    /\ (LastAmount.v <= 0 \/ JsGt(LastAmount, pre.wallet)) )
    => (monthData = pre /\ storage = preStorage)

\* C5 happens: more than a positive wallet was asked for
C5_Witness ==
  /\ lastOp.op = "walletToSavings"
  /\ lastOp.text # <<>>
  /\ IsNum(LastAmount)
  /\ IsNum(pre.wallet)
  /\ pre.wallet.v > 0
  /\ LastAmount.v > pre.wallet.v

\* C6: a wallet-to-savings transfer of an amount with 0 < amount <= wallet
\* takes exactly the amount from the wallet and adds exactly the amount to
\* savings, leaves the wallet >= 0 and changes no log.
C6_TransferMovesAmount ==
  ( /\ lastOp.op = "walletToSavings"
    /\ lastOp.text # <<>>
    /\ IsNum(LastAmount)
    /\ IsNum(pre.wallet)
    /\ 0 < LastAmount.v
    /\ LastAmount.v <= pre.wallet.v )
    => /\ SameInteger(monthData.wallet, JsSub(pre.wallet, LastAmount))
       /\ SameInteger(monthData.savings, JsAdd(pre.savings, LastAmount))
       /\ SameInteger(JsAdd(monthData.wallet, monthData.savings),
                      JsAdd(pre.wallet, pre.savings))
       /\ JsLe(Num(0), monthData.wallet)
       /\ LogsUnchanged

\* C7: a direct savings credit of an amount <= 0 changes nothing; of an
\* amount > 0 it adds exactly the amount to savings and leaves the wallet
\* and the logs as they were.
C7_DirectCredit ==
  ( /\ lastOp.op = "incomeToSavings"
    /\ lastOp.text # <<>>
    /\ IsNum(LastAmount) )
    => IF LastAmount.v <= 0
       THEN monthData = pre /\ storage = preStorage
       ELSE /\ SameInteger(monthData.savings, JsAdd(pre.savings, LastAmount))
            /\ monthData.wallet = pre.wallet
            /\ LogsUnchanged

\* C8: parsing the text that filsToAmountString produces for an amount in
\* fils gives that amount again, for positive, zero and negative amounts.
C8_RoundTrip == pc = "parsed" => parsed = fils

\* C9: an action given an amount text that is not a decimal changes neither
\* the logs nor wallet nor savings, and leaves wallet and savings integers.
C9_InvalidAmountIsNoOp ==
  ( /\ lastOp.op \in {"income", "expense", "lending", "edit",
                      "walletToSavings", "incomeToSavings"}
    /\ lastOp.text # <<>>
    /\ ~IsDecimal(lastOp.text) )
    => /\ monthData = pre
       /\ IsNum(pre.wallet) => IsNum(monthData.wallet)
       /\ IsNum(pre.savings) => IsNum(monthData.savings)

\* C10: after every user action, loading the active month from storage gives
\* the ledger that is in memory.
C10_StorageMatchesMemory ==
  loadMonthData(storage, currentMonthKey) = monthData

\* C11: the months are isolated from one another.  A user action leaves the
\* stored ledger of every month other than the one that was active unchanged;
\* after switching from month A to another month and, whatever is done
\* there, back to A, the ledger in memory is exactly the ledger A had in
\* memory before the switch; and a month with nothing stored opens with the
\* empty ledger, so no balance is carried over.
C11_PeriodsIsolated ==
  /\ Steps > 0 =>
       \A m \in Months \ {trail[Steps].month} : storage[m] = preStorage[m]
  /\ \A i \in 1..(Steps - 1) :
       ( /\ history[i].op = "month"
         /\ history[Steps].op = "month"
         /\ trail[i].month = currentMonthKey
         /\ \A j \in (i + 1)..Steps : trail[j].month # currentMonthKey )
       => monthData = trail[i].md
  /\ ( /\ Steps > 0
       /\ history[Steps].op = "month"
       /\ storage[currentMonthKey] = <<>> )
     => monthData = EmptyLedger

\* C12: after a confirmed clear the active month is the empty ledger, in
\* memory and when loaded again from storage; a clear that is not confirmed
\* changes neither the ledger nor the storage; and a month with nothing
\* stored always loads as the empty ledger, also when it is switched to or
\* the page is loaded again.
C12_ClearMonth ==
  /\ (lastOp.op = "clear" /\ lastOp.confirmed) =>
       /\ monthData = EmptyLedger
       /\ loadMonthData(storage, currentMonthKey) = EmptyLedger
  /\ (lastOp.op = "clear" /\ ~lastOp.confirmed) =>
       /\ monthData = pre
       /\ storage = preStorage
  /\ \A m \in Months :
       storage[m] = <<>> => loadMonthData(storage, m) = EmptyLedger
  /\ (lastOp.op \in {"month", "restart"} /\ storage[currentMonthKey] = <<>>) =>
       monthData = EmptyLedger

\* a confirmed clear of a month that had an entry, a balance and a snapshot
C12_Witness ==
  /\ lastOp.op = "clear"
  /\ lastOp.confirmed
  /\ Len(pre.income) > 0
  /\ pre.wallet # Num(0)
  /\ preStorage[currentMonthKey] # <<>>

\* C13: an edit or a delete whose click names no entry (an index outside
\* the log, or a data-type that is none of the three logs) changes nothing:
\* the three logs, the wallet, the savings and the storage are as before.
C13_MissingEntryIsNoOp ==
  ( /\ lastOp.op \in {"edit", "delete"}
    /\ ~Found(pre, lastOp.type, lastOp.index) )
  => /\ monthData = pre
     /\ storage = preStorage

\* a confirmed delete one past the end of a log that has entries
C13_Witness ==
  /\ lastOp.op = "delete"
  /\ lastOp.confirmed
  /\ lastOp.type = "expense"
  /\ Len(pre.expenses) > 0
  /\ lastOp.index = Len(pre.expenses)

\* an edit whose data-type names none of the logs, in a month with entries
C13_UnknownType ==
  /\ lastOp.op = "edit"
  /\ lastOp.type \notin EntryTypes
  /\ Len(pre.income) > 0

\* the worked example: an income of 100.000, an expense of 25.500, a transfer
\* of 50.000 to savings, the expense edited to 10.000, the income deleted
Scenario ==
  << Op("income", "income", 0, Text100, TRUE),
     Op("expense", "expense", 0, Text25, TRUE),
     Op("walletToSavings", "", 0, Text50, TRUE),
     EditOp("expense", 0, AmountOnly(Text10)),
     Op("delete", "income", 0, <<>>, TRUE) >>

\* the first k user actions were those of the worked example, in month
\* ThisMonth, the income and the expense in KWD and the expense paid from the
\* wallet
Follows(k) ==
  /\ Steps >= k
  /\ SubSeq(history, 1, k) = SubSeq(Scenario, 1, k)
  /\ LedgerAfter(1).income[1].currency = "KWD"
  /\ k >= 2 => /\ LedgerAfter(2).expenses[1].currency = "KWD"
               /\ LedgerAfter(2).expenses[1].method = "wallet"

\* C14: starting from the empty month, after an income of 100.000 KWD the
\* wallet is 100000 fils; after a KWD wallet expense of 25.500 it is 74500;
\* after a transfer of 50.000 to savings the wallet is 24500 and the savings
\* are 50000; after the amount of the expense is edited to 10.000 the wallet
\* is 40000; after the income is deleted the wallet is -60000 and the
\* savings are still 50000.
C14_WorkedExample ==
  /\ Follows(1) => LedgerAfter(1).wallet = Num(100000)
  /\ Follows(2) => LedgerAfter(2).wallet = Num(74500)
  /\ Follows(3) => /\ LedgerAfter(3).wallet = Num(24500)
                   /\ LedgerAfter(3).savings = Num(50000)
  /\ Follows(4) => /\ LedgerAfter(4).wallet = Num(40000)
                   /\ LedgerAfter(4).savings = Num(50000)
  /\ Follows(5) => /\ LedgerAfter(5).wallet = Num(0 - 60000)
                   /\ LedgerAfter(5).savings = Num(50000)

\* the five actions of the worked example have all been handled
C14_Witness == Follows(5)

\* the i-th user action created a KWD entry in the log of its type, every
\* action since then but the last one edited that entry, and the last one
\* deleted it
CreatedThenDeleted(i) ==
  LET type == history[i].type
      index == Len(Log(trail[i].md, type))
  IN  /\ history[i].op \in LongTypes
      /\ Len(Log(LedgerAfter(i), type)) = index + 1
      /\ Log(LedgerAfter(i), type)[index + 1].currency = "KWD"
      /\ \A j \in (i + 1)..(Steps - 1) :
           /\ history[j].op = "edit"
           /\ history[j].type = type
           /\ history[j].index = index
      /\ history[Steps].op = "delete"
      /\ history[Steps].confirmed
      /\ history[Steps].type = type
      /\ history[Steps].index = index

\* C15: whatever the ledger was, after a KWD income or expense entry is
\* created and then deleted, with any number of edits of it in between, the
\* wallet and the savings are what they were before it was created.
C15_CreateThenDelete ==
  \A i \in 1..(Steps - 1) :
    CreatedThenDeleted(i) =>
      /\ SameValue(monthData.wallet, trail[i].md.wallet)
      /\ SameValue(monthData.savings, trail[i].md.savings)

\* the entry that the i-th user action, an edit, names: before the action
\* and after the j-th action
EditedBefore(i) == Log(trail[i].md, history[i].type)[history[i].index + 1]

EditedAfter(i, j) == Log(LedgerAfter(j), history[i].type)[history[i].index + 1]

\* the last four user actions, from the i-th on, edited the amount of one
\* income or expense entry from a0 to a1, to a2, back to a1 and back to
\* a0, and no other field of it
FourEdits(i) ==
  /\ Steps = i + 3
  /\ \A j \in i..Steps :
       /\ history[j].op = "edit"
       /\ history[j].type = history[i].type
       /\ history[j].index = history[i].index
  /\ history[i].type \in LongTypes
  /\ Found(trail[i].md, history[i].type, history[i].index)
  /\ EditedAfter(i, i + 2).amountFils = EditedAfter(i, i).amountFils
  /\ EditedAfter(i, i + 3).amountFils = EditedBefore(i).amountFils
  /\ \A j \in i..Steps :
       EditedAfter(i, j) =
         [EditedBefore(i) EXCEPT !.amountFils = EditedAfter(i, j).amountFils]

\* C16: after the amount of an income or expense entry is edited from a0 to
\* a1, to a2, back to a1 and back to a0, its other fields untouched, the
\* wallet and the savings are what they were before the first edit.
C16_EditsUndone ==
  \A i \in 1..(Steps - 3) :
    FourEdits(i) =>
      /\ SameValue(monthData.wallet, trail[i].md.wallet)
      /\ SameValue(monthData.savings, trail[i].md.savings)

\* C17: the totals per currency never mix currencies.  For the income log
\* and for the expense log of every ledger, the keys of the totals object
\* are exactly the currencies that occur in the log, and the value of each
\* is the sum of amountFils over the entries of the log in that currency.
C17_TotalsByCurrency ==
  /\ TotalsOf(calculateTotals(monthData).incomeTotals, monthData.income)
  /\ TotalsOf(calculateTotals(monthData).expenseTotals, monthData.expenses)

\* C18: the lending summary counts pending entries only.  For every ledger,
\* toReceive has, per currency, the sum of amountFils of the pending entries
\* of type lend, toPayBack the same for type borrow, and an entry that is
\* not pending counts in neither.
C18_PendingExposure ==
  /\ TotalsOf(renderLBSummary(monthData).toReceive,
              Pending(monthData.lending, "lend"))
  /\ TotalsOf(renderLBSummary(monthData).toPayBack,
              Pending(monthData.lending, "borrow"))

\* C19: an edit reverts, overwrites, applies and only then saves.  After an
\* edit of an entry the balances are those before it with the impact of the
\* entry as it was taken back and the impact of the entry as it now is
\* applied, and the snapshot in storage is that of this ledger: no snapshot
\* holds the balances reverted and not yet applied again.
C19_EditAtomic ==
  OnEntry("edit") =>
    LET reverted == Impacted(pre, lastOp.type, PreEntry, TRUE)
        applied == Impacted(reverted, lastOp.type, PostEntry, FALSE)
    IN  /\ monthData.wallet = applied.wallet
        /\ monthData.savings = applied.savings
        /\ storage[currentMonthKey] = <<JSONStringify(monthData)>>
        /\ \A m \in Months \ {currentMonthKey} : storage[m] = preStorage[m]

\* an edit that moved a KWD expense from the wallet to the savings and
\* changed its amount
C19_Witness ==
  /\ OnEntry("edit")
  /\ lastOp.type = "expense"
  /\ IsKwdWallet(PreEntry)
  /\ IsKwdBank(PostEntry)
  /\ IsNum(PreEntry.amountFils)
  /\ IsNum(PostEntry.amountFils)
  /\ PreEntry.amountFils # PostEntry.amountFils
  /\ PostEntry.amountFils # Num(0)

\* C20: entries are kept in insertion order and removed by position.  A
\* submitted entry is appended at the end of its log; a confirmed delete at
\* index i of a log of n entries leaves the n-1 entries that were at
\* 0..i-1 and i+1..n-1, in that order, so that of equal entries only the one
\* clicked is removed; an edit changes neither the length nor the order of
\* the log and no entry but the one clicked; and each of the three leaves the
\* other two logs as they were.
C20_PositionalLogs ==
  /\ (lastOp.op \in EntryTypes /\ lastOp.text # <<>>) =>
       /\ Appended(Log(monthData, lastOp.op), Log(pre, lastOp.op))
       /\ OtherLogsUnchanged(lastOp.op)
  /\ OnEntry("delete") =>
       LET old == Log(pre, lastOp.type)
           new == Log(monthData, lastOp.type)
       IN  /\ Len(new) = Len(old) - 1
           /\ \A j \in 1..lastOp.index : new[j] = old[j]
           /\ \A j \in (lastOp.index + 1)..Len(new) : new[j] = old[j + 1]
           /\ OtherLogsUnchanged(lastOp.type)
  /\ OnEntry("edit") =>
       LET old == Log(pre, lastOp.type)
           new == Log(monthData, lastOp.type)
       IN  /\ Len(new) = Len(old)
           /\ \A j \in 1..Len(old) : j # lastOp.index + 1 => new[j] = old[j]
           /\ OtherLogsUnchanged(lastOp.type)

\* a confirmed delete of the first of two equal entries of a log
C20_Witness ==
  /\ OnEntry("delete")
  /\ lastOp.index = 0
  /\ Len(Log(pre, lastOp.type)) = 2
  /\ Log(pre, lastOp.type)[1] = Log(pre, lastOp.type)[2]
  /\ Len(Log(monthData, lastOp.type)) = 1

\* C21: in every state every expense entry of the ledger has the method
\* wallet or bank, so that every KWD expense counts against exactly one of
\* the wallet and the savings; no creates and edits store another method.
C21_ExpenseMethod ==
  \A i \in 1..Len(monthData.expenses) :
    monthData.expenses[i].method \in Methods

\* the last user action was an edit of an entry in which every prompt was
\* cancelled or left at its default: the amount prompt returned nothing or
\* the text it showed
AllDefaults ==
  /\ OnEntry("edit")
  /\ lastOp.kept
  /\ lastOp.text \in {<<>>, filsToAmountString(PreEntry.amountFils)}

\* C22: an edit in which the user accepts the default of every prompt, or
\* cancels every prompt, changes nothing, for an income, an expense and a
\* lending entry: every field of the entry (the reason of a lending entry
\* included), the wallet and the savings are as before the edit.
C22_DefaultsAreNoOp ==
  AllDefaults =>
    /\ PostEntry = PreEntry
    /\ BalancesUnchanged

=============================================================================
